---- MODULE Spec2Model ----
(***************************************************************************)
(* Model of the retrieval-augmented question answering pipeline of         *)
(* powergrid-ai-tutor: Retriever (src/src/rag/retrieval.py), QueryExpander *)
(* (src/src/rag/query_expander.py), Reranker (src/src/rag/reranker.py),    *)
(* Generator (src/src/rag/generator.py) and RAGPipeline                    *)
(* (src/src/rag/pipeline.py), of the chat handler of the user interface   *)
(* (src/app/main.py), of FAISSVectorStore                                  *)
(* (src/src/vector_store/faiss_store.py) and of ArxivCollector             *)
(* (src/scripts/data_collection/collect_arxiv_papers.py).                  *)
(*                                                                         *)
(* Strings that the code parses (queries, LLM completions) are sequences   *)
(* of one-character strings.  Python's None is the string "None" where the *)
(* field holds strings, and a flag of the record otherwise.                *)
(***************************************************************************)
EXTENDS Integers, Sequences, FiniteSets, TLC

VARIABLES
    corpus,     \* the persisted index: chunk id -> metadata mapping
    retr,       \* a Retriever object
    rcall,      \* the last Retriever.retrieve call and what it returned
    expander,   \* a QueryExpander object
    ecall,      \* the last QueryExpander call and what it returned
    reranker,   \* a Reranker object
    rrcall,     \* the Reranker.rerank call in progress, or the last one
    env,        \* the classes the pipeline is linked with
    pipe,       \* a RAGPipeline object
    call,       \* the RAGPipeline.query / retrieve_only call in progress, or the last one
    calls,      \* thread -> the call of that thread on a shared RAGPipeline
    ui,         \* a PowerGridTutorUI object and its last chat() call
    fusion,     \* a rank fusion: the two rankings and the fused list
    llms,       \* Settings.llm and two pipelines loaded one after the other
    store,      \* a FAISSVectorStore object, its directory and its last call
    collector   \* an ArxivCollector object and its last search_and_download call

vars == <<corpus, retr, rcall, expander, ecall, reranker, rrcall, env, pipe, call,
          calls, ui, fusion, llms, store, collector>>

\* the variables of the specifications of the two LLM providers, of the vector
\* store and of the paper collector
dataVars == <<llms, store, collector>>

\* the variables of the specifications of the concurrent calls, of the user
\* interface, of rank fusion and of the above
appVars == <<calls, ui, fusion, dataVars>>

\* the variables of the RAGPipeline specification
pipeVars == <<env, pipe, call>>

(***************************************************************************)
(* Bounds of the model.                                                    *)
(***************************************************************************)
NChunks == 4
MaxTopK == 2
MaxRespLen == 4
MaxExpansions == 2
MaxNodes == 2
MaxRel == 2
MaxTopN == 2

Chunks == 1..NChunks

(***************************************************************************)
(* Sequence helpers.                                                       *)
(***************************************************************************)
Min(a, b) == IF a < b THEN a ELSE b

\* Python's s[:n] for n >= 0
Take(s, n) == SubSeq(s, 1, Min(n, Len(s)))

\* Python's s[n:] for n >= 0
Drop(s, n) == SubSeq(s, n + 1, Len(s))

Range(s) == {s[i] : i \in DOMAIN s}

(***************************************************************************)
(* Chunk metadata and filters: mappings from a set of keys to values.      *)
(***************************************************************************)
MetaKeys == {"topic", "source"}

ValuesOf(key) == IF key = "topic" THEN {"wind", "solar"} ELSE {"a.pdf"}

AllValues == UNION {ValuesOf(k) : k \in MetaKeys}

Mappings == UNION {{m \in [K -> AllValues] : \A k \in K : m[k] \in ValuesOf(k)} :
                   K \in SUBSET MetaKeys}

\* Optional[Dict[str, str]]: None, or a mapping (possibly empty)
NoFilters == [isNone |-> TRUE, map |-> <<>>]

FilterArgs == {NoFilters} \cup {[isNone |-> FALSE, map |-> m] : m \in Mappings}

\* Python truthiness of the filters argument: None and {} are both falsy
Truthy(filters) == ~filters.isNone /\ DOMAIN filters.map # {}

(***************************************************************************)
(* The vector index.  as_retriever(similarity_top_k=k).retrieve(query)     *)
(* returns the k chunks most similar to the query, best first.  The        *)
(* embedding similarity is a fixed function of the query and the chunk.    *)
(***************************************************************************)
Similarity(query, c) == (c * Len(query)) % (NChunks + 1)

Better(query, a, b) ==
    \/ Similarity(query, a) > Similarity(query, b)
    \/ Similarity(query, a) = Similarity(query, b) /\ a < b

RECURSIVE RankFrom(_, _)
RankFrom(query, left) ==
    IF left = {} THEN <<>>
    ELSE LET best == CHOOSE c \in left : \A d \in left \ {c} : Better(query, c, d)
         IN  <<[id |-> best, score |-> Similarity(query, best)]>>
                 \o RankFrom(query, left \ {best})

\* the chunks of the index are those of the corpus
IndexRetrieve(query, k) == Take(RankFrom(query, DOMAIN corpus), k)

(***************************************************************************)
(* Retriever                                                               *)
(***************************************************************************)
Retriever__init__(top_k) == [top_k |-> top_k]

\* the inner loop of _filter_nodes_by_metadata
MatchesAll(node, fmap) ==
    \A key \in DOMAIN fmap :
        ~(key \notin DOMAIN corpus[node.id] \/ corpus[node.id][key] # fmap[key])

FilterMatchesAny(nodes, fmap) ==
    LET Keep(node) == \E key \in DOMAIN fmap :
                          key \in DOMAIN corpus[node.id] /\ corpus[node.id][key] = fmap[key]
    IN  SelectSeq(nodes, Keep)

_filter_nodes_by_metadata(nodes, fmap) ==
    LET Keep(node) == MatchesAll(node, fmap)
    IN  SelectSeq(nodes, Keep)

OverFetchFour(self) == self.top_k * 4

OverFetchTwice(self) == self.top_k * 2

\* the number of candidates requested from the index when filters are given
OverFetch(self) == self.top_k * 3

RetrieveNoTruncation(self, query, filters) ==
    IF Truthy(filters)
    THEN _filter_nodes_by_metadata(IndexRetrieve(query, OverFetch(self)), filters.map)
    ELSE IndexRetrieve(query, self.top_k)

RetrieverRetrieve(self, query, filters) ==
    IF Truthy(filters)
    THEN LET all_nodes == IndexRetrieve(query, OverFetch(self))
             filtered_nodes == _filter_nodes_by_metadata(all_nodes, filters.map)
         IN  Take(filtered_nodes, self.top_k)
    ELSE IndexRetrieve(query, self.top_k)

(***************************************************************************)
(* Python string operations on sequences of characters.                    *)
(***************************************************************************)
Whitespace == {" ", "\n"}

RECURSIVE LStrip(_)
LStrip(s) == IF s # <<>> /\ Head(s) \in Whitespace THEN LStrip(Tail(s)) ELSE s

RECURSIVE RStrip(_)
RStrip(s) ==
    IF s # <<>> /\ s[Len(s)] \in Whitespace THEN RStrip(SubSeq(s, 1, Len(s) - 1)) ELSE s

\* str.strip()
Strip(s) == RStrip(LStrip(s))

\* str.split(sep) for a one-character separator
RECURSIVE Split(_, _)
Split(s, sep) ==
    IF \E i \in DOMAIN s : s[i] = sep
    THEN LET i == CHOOSE j \in DOMAIN s : s[j] = sep /\ \A h \in 1..(j - 1) : s[h] # sep
         IN  <<SubSeq(s, 1, i - 1)>> \o Split(SubSeq(s, i + 1, Len(s)), sep)
    ELSE <<s>>

\* sep.join(parts)
RECURSIVE Join(_, _)
Join(sep, parts) ==
    IF parts = <<>> THEN <<>>
    ELSE IF Len(parts) = 1 THEN parts[1]
    ELSE parts[1] \o sep \o Join(sep, Tail(parts))

\* str.startswith(c) for a one-character prefix
StartsWith(s, c) == s # <<>> /\ s[1] = c

(***************************************************************************)
(* QueryExpander                                                           *)
(***************************************************************************)
QueryExpander__init__(max_expansions) == [max_expansions |-> max_expansions]

StripAll(lines) == [i \in DOMAIN lines |-> Strip(lines[i])]

\* [term.strip() for term in response.split('\n')
\*  if term.strip() and not term.strip().startswith('#')]
ParseTerms(response) ==
    LET Keep(term) == term # <<>> /\ ~StartsWith(term, "#")
    IN  SelectSeq(StripAll(Split(response, "\n")), Keep)

ExpansionTermsUnlimited(self, text) == ParseTerms(Strip(text))

\* the terms kept from the completion text: parsed, then limited to max_expansions
ExpansionTerms(self, text) == Take(ParseTerms(Strip(text)), self.max_expansions)

CombineAlways(query, expansion_terms) == query \o <<" ">> \o Join(<<" ">>, expansion_terms)

\* f"{query} {' '.join(expansion_terms)}" if expansion_terms else query
Combine(query, expansion_terms) ==
    IF expansion_terms # <<>>
    THEN query \o <<" ">> \o Join(<<" ">>, expansion_terms)
    ELSE query

\* the outcome of Settings.llm.complete(prompt): a completion text or an exception
Completion(text) == [ok |-> TRUE, text |-> text]

LLMError == [ok |-> FALSE, text |-> <<>>]

\* expand() and expand_with_details() compute the same terms and expanded query;
\* expand() returns the expanded query alone, expand_with_details() all three.
ExpandOutcome(self, op, query, llm) ==
    IF ~llm.ok
    THEN [called |-> TRUE, op |-> op, query |-> query, response |-> llm.text,
          raised |-> TRUE, expansion_terms |-> <<>>, expanded_query |-> <<>>]
    ELSE LET expansion_terms == ExpansionTerms(self, llm.text)
         IN  [called |-> TRUE, op |-> op, query |-> query, response |-> llm.text,
              raised |-> FALSE, expansion_terms |-> expansion_terms,
              expanded_query |-> Combine(query, expansion_terms)]

(***************************************************************************)
(* Reranker: a wrapper of llama_index's LLMRerank.  postprocess_nodes cuts *)
(* the nodes into batches of choice_batch_size, asks the LLM once per      *)
(* batch for the numbers of the relevant documents and their relevance,    *)
(* and returns the chosen nodes, sorted by relevance, cut to top_n.        *)
(***************************************************************************)
\* RERANKING["choice_batch_size"]
ChoiceBatchSize == 10

\* LLMRerank's own default for top_n
LLMRerankDefaultTopN == 10

RerankerInitDefaultTopN(top_n, choice_batch_size) ==
    [top_n |-> top_n,
     reranker |-> [top_n |-> LLMRerankDefaultTopN, choice_batch_size |-> choice_batch_size]]

\* self.top_n and the LLMRerank object built from it
Reranker__init__(top_n, choice_batch_size) ==
    [top_n |-> top_n,
     reranker |-> [top_n |-> top_n, choice_batch_size |-> choice_batch_size]]

\* the outcome of one LLM call of LLMRerank: the parsed answer lines, or an exception
Choices(choices) == [ok |-> TRUE, choices |-> choices]

RerankLLMError == [ok |-> FALSE, choices |-> <<>>]

\* nodes[idx : idx + choice_batch_size]
BatchAt(lr, nodes, idx) == Take(Drop(nodes, idx), lr.choice_batch_size)

\* an answer line numbers a document from 1; a number above the batch length is
\* skipped, and number 0 becomes Python index -1, the last node of the batch
RECURSIVE ChosenNodes(_, _)
ChosenNodes(batch, choices) ==
    IF choices = <<>> THEN <<>>
    ELSE LET c == Head(choices)
             rest == ChosenNodes(batch, Tail(choices))
         IN  IF c.doc > Len(batch) THEN rest
             ELSE <<[id |-> batch[IF c.doc = 0 THEN Len(batch) ELSE c.doc].id,
                     score |-> c.rel]>> \o rest

\* sorted(results, key=score, reverse=True): stable, best first
RECURSIVE SortedByScore(_)
SortedByScore(results) ==
    IF results = <<>> THEN <<>>
    ELSE LET i == CHOOSE j \in DOMAIN results :
                      /\ \A h \in DOMAIN results : results[h].score <= results[j].score
                      /\ \A h \in 1..(j - 1) : results[h].score < results[j].score
         IN  <<results[i]>> \o
                 SortedByScore(SubSeq(results, 1, i - 1) \o SubSeq(results, i + 1, Len(results)))

\* the state of one rerank() call: where it stands and what it has collected
RerankIdle ==
    [called |-> FALSE, pc |-> "idle", nodes |-> <<>>, idx |-> 0, initial_results |-> <<>>,
     llm_calls |-> 0, raised |-> FALSE, out |-> <<>>]

\* rerank(nodes, query_str) up to its first LLM call: an empty list is returned as is
RerankBegin(self, nodes) ==
    IF nodes = <<>>
    THEN [RerankIdle EXCEPT !.called = TRUE, !.pc = "done"]
    ELSE [RerankIdle EXCEPT !.called = TRUE, !.pc = "batch", !.nodes = nodes]

\* one batch of postprocess_nodes, given the outcome of its LLM call; after the
\* last batch the results are sorted and cut to top_n
RerankBatch(self, st, llm) ==
    IF ~llm.ok
    THEN [st EXCEPT !.pc = "done", !.raised = TRUE, !.llm_calls = @ + 1]
    ELSE LET lr == self.reranker
             batch == BatchAt(lr, st.nodes, st.idx)
             results == st.initial_results \o ChosenNodes(batch, llm.choices)
             idx == st.idx + lr.choice_batch_size
         IN  IF idx < Len(st.nodes)
             THEN [st EXCEPT !.idx = idx, !.initial_results = results, !.llm_calls = @ + 1]
             ELSE [st EXCEPT !.pc = "done", !.idx = idx, !.initial_results = results,
                             !.llm_calls = @ + 1,
                             !.out = Take(SortedByScore(results), lr.top_n)]

\* the answers the LLM can give for a batch: at most one line more than there are
\* documents, each naming a document number (0 and one past the end included)
ChoiceLines(batch) == [doc : 0..(Len(batch) + 1), rel : 1..MaxRel]

\* the answers of at most max_lines lines, and the failure of the call
RerankAnswers(batch, max_lines) ==
    {Choices(cs) : cs \in UNION {[1..n -> ChoiceLines(batch)] : n \in 0..max_lines}}
        \cup {RerankLLMError}

RerankLLMOutcomes(batch) == RerankAnswers(batch, Len(batch) + 1)

(***************************************************************************)
(* RAGPipeline.  An attribute that may be None is [set |-> FALSE], or      *)
(* [set |-> TRUE, obj |-> the object].                                     *)
(***************************************************************************)
None == [set |-> FALSE]

Some(obj) == [set |-> TRUE, obj |-> obj]

\* initial_top_k = 10 if self.use_reranking else 5
InitialTopKReranking == 10

InitialTopKPlain == 5

\* Reranker(top_n=5)
PipelineTopN == 5

\* QueryExpander(max_expansions=5)
PipelineMaxExpansions == 5

\* similarity_top_k of index.as_query_engine(...) when none is given
QueryEngineTopK == 2

RAGPipeline__init__(use_reranking, use_hybrid, use_query_expansion) ==
    [vector_store |-> None, index |-> None, retriever |-> None, generator |-> None,
     embed_manager |-> None, reranker |-> None, query_expander |-> None,
     use_reranking |-> use_reranking, use_hybrid |-> use_hybrid,
     use_query_expansion |-> use_query_expansion]

\* A prompt is the sequence of its parts: fixed text, the context built from the
\* node texts in their order (a node's text is named by the node's id), and the
\* question.
Lit(text) == [part |-> "text", val |-> text]

ContextStr(nodes) == [part |-> "context", val |-> [i \in DOMAIN nodes |-> nodes[i].id]]

QueryStr(question) == [part |-> "question", val |-> question]

\* line 27 of the generator's template
DomainInstruction == "You are an AI assistant specialized in electrical engineering, ..."

\* lines 28-31 of the generator's template
AnswerInstructions == "Instructions: 1. ... 2. ... 3. ..."

\* line 32 of the generator's template
RefusalInstruction == "4. Only if the question is completely unrelated ..., respond with: 'I'm here to help ...'"

\* the text_qa_template of the generator's query engine, filled in
qa_prompt_str(context_str, query_str) ==
    <<Lit(DomainInstruction), Lit(AnswerInstructions), Lit(RefusalInstruction),
      Lit("Context:"), context_str, Lit("Question:"), query_str, Lit("Answer:")>>

\* the f-string that query() completes for a filtered query
FilteredPrompt(context, question) ==
    <<Lit("Context:"), context, Lit("Question:"), question,
      Lit("Answer based only on the context above:")>>

\* the context from which an answer is generated, and how it was obtained
NoContext == [nodes |-> <<>>, query |-> <<>>, expanded |-> FALSE, reranked |-> FALSE,
              via |-> "none"]

\* the frame of one call on the pipeline
NoCall ==
    [op |-> "none", pc |-> "idle", question |-> <<>>, filters |-> NoFilters,
     return_sources |-> FALSE, search_query |-> <<>>, ro_search_query |-> <<>>,
     expanded |-> FALSE, expansion_failed |-> FALSE, retrieved |-> FALSE, nodes |-> <<>>,
     rr |-> RerankIdle, ctx |-> NoContext, trace |-> <<>>, llm_calls |-> 0,
     error |-> "None", answer |-> "None", sources |-> <<>>, index_raised |-> FALSE,
     prompt |-> <<>>, generation_failed |-> FALSE,
     failure |-> [msg |-> <<>>, kind |-> "None"]]

\* a stage of the pipeline is entered
Enter(c, stage) == [c EXCEPT !.trace = Append(@, stage)]

\* an exception leaves the call
Raise(c, e) == [c EXCEPT !.pc = "done", !.error = e]

\* EmbeddingManager() builds Gemini(model=..., api_key=..., temperature=...): no
\* timeout is passed to the LLM client, and query() takes none from its caller
request_timeout == None

\* an LLM call that the service never answers: with a timeout the call fails;
\* without one the outcome is the client library's, which gives up by itself
\* or waits for ever
NoResponse(c, timeout, library_gives_up) ==
    IF timeout.set \/ library_gives_up
    THEN [Raise(c, "Timeout") EXCEPT !.llm_calls = @ + 1]
    ELSE [c EXCEPT !.pc = "pending"]

\* the calls of load_existing() that raise by the code of the repository:
\* EmbeddingManager() without an API key (embedders.py:66-67, 89-90) and
\* FAISSVectorStore.load() without a saved index (faiss_store.py:85-86)
InitFailures == {"none", "EmbeddingManager", "load"}

\* a load_existing() that builds the Generator before the Retriever
GeneratorBeforeRetriever(p, accepts_use_hybrid, fails_at) ==
    [pipe |-> [p EXCEPT !.generator = Some("Generator")], error |-> "TypeError"]

\* load_existing(): the embedding manager, the vector store and the index are set,
\* then Retriever(self.index, top_k=initial_top_k, use_hybrid=self.use_hybrid) is
\* called; a Retriever class without a use_hybrid parameter raises TypeError there.
\* An attribute is assigned when the call on its right-hand side has returned.
LoadExisting(p, accepts_use_hybrid, fails_at) ==
    LET p0 == [p EXCEPT !.embed_manager = Some("EmbeddingManager"),
                        !.vector_store = Some("FAISSVectorStore")]
        p1 == [p0 EXCEPT !.index = Some("VectorStoreIndex")]
        initial_top_k == IF p.use_reranking THEN InitialTopKReranking ELSE InitialTopKPlain
        p2 == [p1 EXCEPT !.retriever = Some([top_k |-> initial_top_k,
                                             use_hybrid |-> p.use_hybrid]),
                         !.generator = Some("Generator")]
        p3 == IF p.use_reranking
              THEN [p2 EXCEPT !.reranker = Some(Reranker__init__(PipelineTopN, ChoiceBatchSize))]
              ELSE p2
        p4 == IF p.use_query_expansion
              THEN [p3 EXCEPT !.query_expander = Some(QueryExpander__init__(PipelineMaxExpansions))]
              ELSE p3
    IN  IF fails_at = "EmbeddingManager" THEN [pipe |-> p, error |-> "ValueError"]
        ELSE IF fails_at = "load" THEN [pipe |-> p0, error |-> "FileNotFoundError"]
        ELSE IF accepts_use_hybrid
        THEN [pipe |-> p4, error |-> "None"]
        ELSE [pipe |-> p1, error |-> "TypeError"]

\* messages of the exceptions that the LLM client raises (a text is a sequence of
\* words): a blocked response, an exhausted quota, a rejected key, anything else
BlockedMsg == <<"The", "response.text", "quick", "accessor", "only", "works", "when", "...">>

QuotaMsg == <<"429", "Quota", "exceeded">>

ApiKeyMsg == <<"API", "key", "not", "valid">>

OtherMsg == <<"Connection", "reset">>

\* ValueError("Pipeline not initialized. ...")
NotInitializedMsg == <<"Pipeline", "not", "initialized", ".">>

\* the outcome of the LLM call that generates the answer
Answer(text) == [ok |-> TRUE, text |-> text, msg |-> <<>>]

AnswerLLMError(msg) == [ok |-> FALSE, text |-> "None", msg |-> msg]

\* the exception that leaves query() when the LLM call of the generation raises:
\* neither Generator.generate nor query() has an except clause, so it is the
\* client's exception with its message, and no failure kind is attached to it
GenerationFailure(llm) == [msg |-> llm.msg, kind |-> "None"]

\* retrieve_only() returns; in query() the answer is then generated from its nodes
RetrieveOnlyReturn(p, c) ==
    IF c.op = "retrieve_only"
    THEN [c EXCEPT !.pc = "done"]
    ELSE [Enter(c, "generation") EXCEPT
             !.pc = "q_generate",
             !.prompt = FilteredPrompt(ContextStr(c.nodes), QueryStr(c.question)),
             !.ctx = [nodes |-> c.nodes, query |-> c.ro_search_query,
                      expanded |-> c.expanded, reranked |-> c.rr.called,
                      via |-> "retrieve_only"]]

\* a retrieval that catches the exception of the index and returns no nodes
RetrievalSwallowed(index_raises, nodes) ==
    [raised |-> FALSE, nodes |-> IF index_raises THEN <<>> ELSE nodes]

\* the outcome of a retrieval whose index search raises or returns nodes: neither
\* Retriever.retrieve nor the query engine handles the exception
RetrievalOutcome(index_raises, nodes) ==
    IF index_raises THEN [raised |-> TRUE, nodes |-> <<>>] ELSE [raised |-> FALSE, nodes |-> nodes]

\* retrieve_only() from self.retriever.retrieve(search_query, filters=filters) on
RetrieveOnlyRetrieve(p, c) ==
    LET r == RetrievalOutcome(env.index_raises,
                              RetrieverRetrieve(p.retriever.obj, c.ro_search_query, c.filters))
        nodes == r.nodes
        c1 == [Enter(c, "retrieval") EXCEPT !.index_raised = env.index_raises]
        c2 == IF Truthy(c.filters) THEN Enter(c1, "filtering") ELSE c1
        c3 == [c2 EXCEPT !.retrieved = TRUE, !.nodes = nodes]
    IN  IF r.raised THEN Raise(c1, "RetrievalError")
        ELSE IF p.use_reranking /\ p.reranker.set
        THEN LET rr == RerankBegin(p.reranker.obj, nodes)
                 c4 == [Enter(c3, "reranking") EXCEPT !.rr = rr]
             IN  IF rr.pc = "done"
                 THEN RetrieveOnlyReturn(p, [c4 EXCEPT !.nodes = rr.out])
                 ELSE [c4 EXCEPT !.pc = "ro_rerank"]
        ELSE RetrieveOnlyReturn(p, c3)

\* retrieve_only() up to its first LLM call
RetrieveOnlyEntry(p, c) ==
    LET c1 == [c EXCEPT !.ro_search_query = c.question]
    IN  IF ~p.retriever.set THEN Raise(c1, "ValueError")
        ELSE IF p.use_query_expansion /\ p.query_expander.set
        THEN [Enter(c1, "expansion") EXCEPT !.pc = "ro_expand"]
        ELSE RetrieveOnlyRetrieve(p, c1)

\* retrieve_only() after the LLM call of self.query_expander.expand(question)
RetrieveOnlyExpanded(p, c, llm) ==
    IF ~llm.ok
    THEN [Raise(c, "LLMError") EXCEPT !.expansion_failed = TRUE, !.llm_calls = @ + 1]
    ELSE RetrieveOnlyRetrieve(p,
             [c EXCEPT !.ro_search_query =
                           Combine(c.question, ExpansionTerms(p.query_expander.obj, llm.text)),
                       !.expanded = TRUE, !.llm_calls = @ + 1])

\* retrieve_only() after an LLM call of self.reranker.rerank(nodes, question)
RetrieveOnlyReranked(p, c, llm) ==
    LET rr == RerankBatch(p.reranker.obj, c.rr, llm)
        c1 == [c EXCEPT !.rr = rr, !.llm_calls = @ + 1]
    IN  IF rr.pc # "done" THEN c1
        ELSE IF rr.raised THEN Raise(c1, "LLMError")
        ELSE RetrieveOnlyReturn(p, [c1 EXCEPT !.nodes = rr.out])

\* self.generator.generate(question) / generate_with_sources(question): the query
\* engine of the index retrieves for the question itself and calls the LLM
GeneratorQuery(p, c) ==
    LET r == RetrievalOutcome(env.index_raises, IndexRetrieve(c.question, QueryEngineTopK))
        c1 == [Enter(c, "retrieval") EXCEPT !.index_raised = env.index_raises]
    IN  IF r.raised THEN Raise(c1, "RetrievalError")
        ELSE [Enter(c1, "generation") EXCEPT
                 !.pc = "g_generate",
                 !.prompt = qa_prompt_str(ContextStr(r.nodes), QueryStr(c.question)),
                 !.ctx = [nodes |-> r.nodes, query |-> c.question,
                          expanded |-> FALSE, reranked |-> FALSE, via |-> "query_engine"]]

\* query() from "if filters:" on
QueryBranch(p, c) ==
    IF Truthy(c.filters) THEN RetrieveOnlyEntry(p, c) ELSE GeneratorQuery(p, c)

\* query() up to its first LLM call
QueryEntry(p, question, filters, return_sources) ==
    LET c == [NoCall EXCEPT !.op = "query", !.question = question, !.filters = filters,
                            !.return_sources = return_sources, !.search_query = question]
    IN  IF ~p.generator.set THEN Raise(c, "ValueError")
        ELSE IF p.use_query_expansion /\ p.query_expander.set
        THEN [Enter(c, "expansion") EXCEPT !.pc = "q_expand"]
        ELSE QueryBranch(p, c)

\* query() after the LLM call of self.query_expander.expand(question)
QueryExpanded(p, c, llm) ==
    IF ~llm.ok
    THEN [Raise(c, "LLMError") EXCEPT !.expansion_failed = TRUE, !.llm_calls = @ + 1]
    ELSE QueryBranch(p,
             [c EXCEPT !.search_query =
                           Combine(c.question, ExpansionTerms(p.query_expander.obj, llm.text)),
                       !.llm_calls = @ + 1])

\* query() after the LLM call that generates the answer
QueryGenerated(c, llm) ==
    IF ~llm.ok
    THEN [Raise(c, "LLMError") EXCEPT !.llm_calls = @ + 1, !.generation_failed = TRUE,
                                      !.failure = GenerationFailure(llm)]
    ELSE [c EXCEPT !.pc = "done", !.answer = llm.text, !.llm_calls = @ + 1,
                   !.sources = IF c.return_sources THEN c.ctx.nodes ELSE <<>>]

(***************************************************************************)
(* Specification of a Retriever over a persisted corpus: the corpus and    *)
(* the retriever's top_k are drawn at construction, then retrieve() is     *)
(* called with any query and any filters argument.  retrieve() writes no   *)
(* field of the Retriever or of the index, so one call is followed per     *)
(* behaviour.                                                              *)
(***************************************************************************)
Questions == {<<"q">>, <<"q", "r">>}

TopKs == 1..MaxTopK

NoRCall == [called |-> FALSE, query |-> <<>>, filters |-> NoFilters, nodes |-> <<>>]

Idle == [called |-> FALSE]

InitRetriever ==
    /\ corpus \in [Chunks -> Mappings]
    /\ \E k \in TopKs : retr = Retriever__init__(k)
    /\ rcall = NoRCall
    /\ expander = Idle
    /\ ecall = Idle
    /\ reranker = Idle
    /\ rrcall = Idle
    /\ env = Idle
    /\ pipe = Idle
    /\ call = Idle
    /\ calls = Idle
    /\ ui = Idle
    /\ fusion = Idle
    /\ llms = Idle
    /\ store = Idle
    /\ collector = Idle

Retrieve(query, filters) ==
    /\ ~rcall.called
    /\ rcall' = [called |-> TRUE, query |-> query, filters |-> filters,
                 nodes |-> RetrieverRetrieve(retr, query, filters)]
    /\ UNCHANGED <<corpus, retr, expander, ecall, reranker, rrcall, pipeVars, appVars>>

NextRetriever == \E query \in Questions, filters \in FilterArgs : Retrieve(query, filters)

SpecRetriever == InitRetriever /\ [][NextRetriever]_vars

\* a list of scored nodes is ordered best first
BestFirst(nodes) == \A i \in 1..(Len(nodes) - 1) : nodes[i].score >= nodes[i + 1].score

IdsOf(nodes) == {nodes[i].id : i \in DOMAIN nodes}

\* C1: whatever the query and the filters (none, empty or non-empty), retrieve()
\* returns at most top_k candidates, in non-increasing order of relevance score.
C1_AtMostTopKBestFirst ==
    rcall.called => Len(rcall.nodes) <= retr.top_k /\ BestFirst(rcall.nodes)

\* C1 witness: a filtered call where more than top_k fetched candidates match, so
\* that the truncation to top_k acted, and the result holds two ranked candidates.
C1_Witness ==
    /\ rcall.called /\ Truthy(rcall.filters)
    /\ Len(rcall.nodes) = retr.top_k /\ Len(rcall.nodes) >= 2
    /\ Len(RetrieveNoTruncation(retr, rcall.query, rcall.filters)) > retr.top_k

\* C2: with a non-empty filter mapping every returned candidate's metadata holds
\* every filter key with exactly the filter's value.
C2_ResultsSatisfyFilters ==
    (rcall.called /\ Truthy(rcall.filters)) =>
        \A i \in DOMAIN rcall.nodes :
            \A key \in DOMAIN rcall.filters.map :
                /\ key \in DOMAIN corpus[rcall.nodes[i].id]
                /\ corpus[rcall.nodes[i].id][key] = rcall.filters.map[key]

\* C2 witness: a two-key filter returned a candidate, and dropped a better ranked
\* one that matches one key and lacks the other.
C2_Witness ==
    /\ rcall.called /\ DOMAIN rcall.filters.map = MetaKeys
    /\ rcall.nodes # <<>>
    /\ \E c \in Chunks :
          /\ c \notin IdsOf(rcall.nodes)
          /\ Better(rcall.query, c, rcall.nodes[1].id)
          /\ DOMAIN corpus[c] = {"topic"}
          /\ corpus[c]["topic"] = rcall.filters.map["topic"]

WindFilter == [isNone |-> FALSE, map |-> [k \in {"topic"} |-> "wind"]]

HasWindChunk == \E c \in Chunks : "topic" \in DOMAIN corpus[c] /\ corpus[c]["topic"] = "wind"

\* C3: retrieval with filters {"topic": "wind"} returns the empty list if and only
\* if no chunk of the corpus has topic "wind".
C3_EmptyIffNoWindChunk ==
    (rcall.called /\ rcall.filters = WindFilter) =>
        ((rcall.nodes = <<>>) <=> ~HasWindChunk)

\* C4, as claimed: the candidates of retrieve(query, filters) are among the
\* candidates of retrieve(query, None) on the same retriever and corpus.
C4_SubsetOfUnfiltered ==
    rcall.called =>
        IdsOf(rcall.nodes) \subseteq IdsOf(RetrieverRetrieve(retr, rcall.query, NoFilters))

\* C4, amended: the candidates of retrieve(query, filters) are among the first
\* 3 x top_k candidates of the base ranking of the query, which is what
\* retrieve(query, None) returns on a retriever whose top_k is three times as large.
C4_SubsetOfOverFetched ==
    rcall.called =>
        IdsOf(rcall.nodes) \subseteq
            IdsOf(RetrieverRetrieve(Retriever__init__(3 * retr.top_k), rcall.query, NoFilters))

\* C4 witness: a filtered call returned a candidate ranked below the first top_k.
C4_Witness ==
    /\ rcall.called /\ Truthy(rcall.filters)
    /\ \E i \in DOMAIN rcall.nodes :
          rcall.nodes[i].id \notin IdsOf(RetrieverRetrieve(retr, rcall.query, NoFilters))

\* a chunk whose metadata has every key of the mapping with the mapping's value
Satisfies(c, fmap) ==
    \A key \in DOMAIN fmap : key \in DOMAIN corpus[c] /\ corpus[c][key] = fmap[key]

\* C25: with a non-empty filter mapping, retrieve() returns the first top_k of those
\* among the 3 x top_k best candidates of the base ranking that satisfy the
\* filters, in base-ranking order; with filters None or empty it returns the
\* top_k best candidates of the base ranking, unfiltered.
C25_OverFetchThenFilter ==
    rcall.called =>
        LET Keep(node) == Satisfies(node.id, rcall.filters.map)
        IN  IF ~rcall.filters.isNone /\ DOMAIN rcall.filters.map # {}
            THEN rcall.nodes = Take(SelectSeq(IndexRetrieve(rcall.query, 3 * retr.top_k), Keep),
                                    retr.top_k)
            ELSE rcall.nodes = IndexRetrieve(rcall.query, retr.top_k)

\* C25 witness: a filtered call returned fewer than top_k candidates although a
\* chunk ranked below the first 3 x top_k satisfies the filters.
C25_Witness ==
    /\ rcall.called /\ Truthy(rcall.filters) /\ Len(rcall.nodes) < retr.top_k
    /\ \E c \in Chunks : Satisfies(c, rcall.filters.map) /\ c \notin IdsOf(rcall.nodes)

(***************************************************************************)
(* Specification of a QueryExpander: max_expansions is drawn at            *)
(* construction, then expand() or expand_with_details() is called with any *)
(* query; the LLM answers with any text or fails.  Neither method writes a *)
(* field of the expander, so one call is followed per behaviour.           *)
(***************************************************************************)
Alphabet == {"a", "#", " ", "\n"}

Texts == UNION {[1..n -> Alphabet] : n \in 0..MaxRespLen}

LLMOutcomes == {Completion(text) : text \in Texts} \cup {LLMError}

InitExpander ==
    /\ corpus = <<>>
    /\ retr = Idle
    /\ rcall = Idle
    /\ \E m \in 0..MaxExpansions : expander = QueryExpander__init__(m)
    /\ ecall = Idle
    /\ reranker = Idle
    /\ rrcall = Idle
    /\ env = Idle
    /\ pipe = Idle
    /\ call = Idle
    /\ calls = Idle
    /\ ui = Idle
    /\ fusion = Idle
    /\ llms = Idle
    /\ store = Idle
    /\ collector = Idle

expand(query, llm) ==
    /\ ~ecall.called
    /\ ecall' = ExpandOutcome(expander, "expand", query, llm)
    /\ UNCHANGED <<corpus, retr, rcall, expander, reranker, rrcall, pipeVars, appVars>>

expand_with_details(query, llm) ==
    /\ ~ecall.called
    /\ ecall' = ExpandOutcome(expander, "expand_with_details", query, llm)
    /\ UNCHANGED <<corpus, retr, rcall, expander, reranker, rrcall, pipeVars, appVars>>

NextExpander ==
    \E query \in Questions, llm \in LLMOutcomes :
        \/ expand(query, llm)
        \/ expand_with_details(query, llm)

SpecExpander == InitExpander /\ [][NextExpander]_vars

Returned(c) == c.called /\ ~c.raised

\* a line of the completion that is blank or a comment
BlankOrComment(line) == Strip(line) = <<>> \/ StartsWith(Strip(line), "#")

\* C7: the expansion terms are at most max_expansions, and none of them is a blank
\* line or a line starting with '#' of the completion.
C7_AtMostMaxExpansions ==
    Returned(ecall) =>
        /\ Len(ecall.expansion_terms) <= expander.max_expansions
        /\ \A i \in DOMAIN ecall.expansion_terms :
              LET term == ecall.expansion_terms[i]
              IN  /\ term # <<>>
                  /\ term[1] # "#"
                  /\ term[1] \notin Whitespace /\ term[Len(term)] \notin Whitespace
                  /\ "\n" \notin Range(term)

\* C7 witness: a completion with a blank or comment line and more usable lines
\* than max_expansions >= 1, so that both the parse and the limit acted.
C7_Witness ==
    /\ Returned(ecall) /\ expander.max_expansions >= 1
    /\ Len(ecall.expansion_terms) = expander.max_expansions
    /\ Len(ParseTerms(Strip(ecall.response))) > expander.max_expansions
    /\ \E i \in DOMAIN Split(ecall.response, "\n") :
          BlankOrComment(Split(ecall.response, "\n")[i])

NoTermsCase ==
    \/ expander.max_expansions = 0
    \/ \A i \in DOMAIN Split(ecall.response, "\n") :
          BlankOrComment(Split(ecall.response, "\n")[i])

\* C8: the expanded query starts with the original query, and equals it when no
\* terms are produced (max_expansions = 0, or only blank and comment lines).
C8_OriginalIsPrefix ==
    Returned(ecall) =>
        /\ Len(ecall.expanded_query) >= Len(ecall.query)
        /\ SubSeq(ecall.expanded_query, 1, Len(ecall.query)) = ecall.query
        /\ NoTermsCase => ecall.expanded_query = ecall.query

\* C8 witness: a completion made of comment lines only, with max_expansions >= 1,
\* returned by expand_with_details().
C8_Witness ==
    /\ Returned(ecall) /\ ecall.op = "expand_with_details"
    /\ expander.max_expansions >= 1
    /\ "#" \in Range(ecall.response) /\ "a" \in Range(ecall.response)
    /\ NoTermsCase
    /\ ecall.expanded_query = ecall.query

(***************************************************************************)
(* Specification of a Reranker: top_n and choice_batch_size are drawn at   *)
(* construction, then rerank() is called with a candidate list as the      *)
(* index returns it, and proceeds one LLM call at a time.                  *)
(***************************************************************************)
BatchSizes == {1, ChoiceBatchSize}

InitReranker ==
    /\ corpus = [c \in Chunks |-> <<>>]
    /\ retr = Idle
    /\ rcall = Idle
    /\ expander = Idle
    /\ ecall = Idle
    /\ \E n \in 1..MaxTopN, b \in BatchSizes : reranker = Reranker__init__(n, b)
    /\ rrcall = RerankIdle
    /\ env = Idle
    /\ pipe = Idle
    /\ call = Idle
    /\ calls = Idle
    /\ ui = Idle
    /\ fusion = Idle
    /\ llms = Idle
    /\ store = Idle
    /\ collector = Idle

rerank(nodes) ==
    /\ ~rrcall.called
    /\ rrcall' = RerankBegin(reranker, nodes)
    /\ UNCHANGED <<corpus, retr, rcall, expander, ecall, reranker, pipeVars, appVars>>

postprocess_batch ==
    /\ rrcall.pc = "batch"
    /\ \E llm \in RerankLLMOutcomes(BatchAt(reranker.reranker, rrcall.nodes, rrcall.idx)) :
          rrcall' = RerankBatch(reranker, rrcall, llm)
    /\ UNCHANGED <<corpus, retr, rcall, expander, ecall, reranker, pipeVars, appVars>>

NextReranker ==
    \/ \E query \in Questions, k \in 0..MaxNodes : rerank(IndexRetrieve(query, k))
    \/ postprocess_batch

SpecReranker == InitReranker /\ [][NextReranker]_vars

\* C9: rerank() returns at most top_n items, each of them a candidate of its
\* input list, and returns the empty list, without an LLM call, for an empty input.
C9_AtMostTopNFromInput ==
    (rrcall.pc = "done" /\ ~rrcall.raised) =>
        /\ Len(rrcall.out) <= reranker.top_n
        /\ IdsOf(rrcall.out) \subseteq IdsOf(rrcall.nodes)
        /\ rrcall.nodes = <<>> => (rrcall.out = <<>> /\ rrcall.llm_calls = 0)

\* C9 witness: the LLM chose more candidates than top_n over two batches, and
\* top_n of them were returned.
C9_Witness ==
    /\ rrcall.pc = "done" /\ ~rrcall.raised
    /\ rrcall.llm_calls = 2
    /\ Len(rrcall.initial_results) > reranker.top_n
    /\ Len(rrcall.out) = reranker.top_n

(***************************************************************************)
(* Specification of a RAGPipeline.  The pipeline is constructed with any   *)
(* flags over a persisted corpus; load_existing(), query() and             *)
(* retrieve_only() are called one after the other, and a call proceeds one *)
(* LLM call at a time.  The repository calls Retriever(..., use_hybrid=..) *)
(* (pipeline.py:84,123) while retrieval.py:16 declares no such parameter:  *)
(* env says which of the two the linked Retriever class is, and whether    *)
(* the search of the loaded index raises.                                  *)
(***************************************************************************)
Topics == [Chunks -> {[k \in {"topic"} |-> v] : v \in ValuesOf("topic")}]

PipelineFilters == {NoFilters, [isNone |-> FALSE, map |-> <<>>], WindFilter}

\* the completions the LLM gives to the expansion prompt: a line at most
ShortTexts == {t \in Texts : Len(t) <= 1}

ExpansionLLMOutcomes == {Completion(text) : text \in ShortTexts} \cup {LLMError}

AnswerLLMOutcomes ==
    {Answer(text) : text \in {"answer", "refusal"}}
        \cup {AnswerLLMError(msg) : msg \in {BlockedMsg, QuotaMsg, ApiKeyMsg, OtherMsg}}

Init ==
    /\ corpus \in Topics
    /\ retr = Idle
    /\ rcall = Idle
    /\ expander = Idle
    /\ ecall = Idle
    /\ reranker = Idle
    /\ rrcall = Idle
    /\ env \in [retriever_accepts_use_hybrid : BOOLEAN, index_raises : BOOLEAN]
    /\ \E r, h, e \in BOOLEAN : pipe = RAGPipeline__init__(r, h, e)
    /\ call = NoCall
    /\ calls = Idle
    /\ ui = Idle
    /\ fusion = Idle
    /\ llms = Idle
    /\ store = Idle
    /\ collector = Idle

Ready == call.pc \in {"idle", "done"}

compVars == <<corpus, retr, rcall, expander, ecall, reranker, rrcall>>

load_existing ==
    /\ Ready
    /\ \E fails_at \in InitFailures :
          LET out == LoadExisting(pipe, env.retriever_accepts_use_hybrid, fails_at)
          IN  /\ pipe' = out.pipe
              /\ call' = [NoCall EXCEPT !.op = "load_existing", !.pc = "done",
                                        !.error = out.error]
    /\ UNCHANGED <<compVars, appVars, env>>

query(question, filters, return_sources) ==
    /\ Ready
    /\ call' = QueryEntry(pipe, question, filters, return_sources)
    /\ UNCHANGED <<compVars, appVars, env, pipe>>

retrieve_only(question, filters) ==
    /\ Ready
    /\ call' = RetrieveOnlyEntry(pipe, [NoCall EXCEPT !.op = "retrieve_only",
                                                      !.question = question,
                                                      !.filters = filters])
    /\ UNCHANGED <<compVars, appVars, env, pipe>>

expansion_completes ==
    /\ call.pc \in {"q_expand", "ro_expand"}
    /\ \/ \E llm \in ExpansionLLMOutcomes :
             call' = IF call.pc = "q_expand" THEN QueryExpanded(pipe, call, llm)
                     ELSE RetrieveOnlyExpanded(pipe, call, llm)
       \/ \E library_gives_up \in BOOLEAN :
             call' = NoResponse(call, request_timeout, library_gives_up)
    /\ UNCHANGED <<compVars, appVars, env, pipe>>

rerank_completes ==
    /\ call.pc = "ro_rerank"
    /\ \/ \E llm \in RerankAnswers(BatchAt(pipe.reranker.obj.reranker,
                                            call.rr.nodes, call.rr.idx), 1) :
             call' = RetrieveOnlyReranked(pipe, call, llm)
       \/ \E library_gives_up \in BOOLEAN :
             call' = NoResponse(call, request_timeout, library_gives_up)
    /\ UNCHANGED <<compVars, appVars, env, pipe>>

generation_completes ==
    /\ call.pc \in {"q_generate", "g_generate"}
    /\ \/ \E llm \in AnswerLLMOutcomes : call' = QueryGenerated(call, llm)
       \/ \E library_gives_up \in BOOLEAN :
             call' = NoResponse(call, request_timeout, library_gives_up)
    /\ UNCHANGED <<compVars, appVars, env, pipe>>

Next ==
    \/ load_existing
    \/ \E filters \in PipelineFilters, return_sources \in BOOLEAN :
          query(<<"q">>, filters, return_sources)
    \/ \E filters \in PipelineFilters : retrieve_only(<<"q">>, filters)
    \/ expansion_completes
    \/ rerank_completes
    \/ generation_completes

Spec == Init /\ [][Next]_vars

StageIndex(stage) ==
    CASE stage = "expansion" -> 1
      [] stage = "retrieval" -> 2
      [] stage = "filtering" -> 3
      [] stage = "reranking" -> 4
      [] stage = "generation" -> 5

\* C5: within one call the stages are entered in the order expansion, retrieval,
\* filtering, reranking, generation, each at most once, and a disabled stage
\* (expansion or reranking switched off, no filters) is not entered.
C5_StagesInOrderOnce ==
    /\ \A i, j \in DOMAIN call.trace :
          i < j => StageIndex(call.trace[i]) < StageIndex(call.trace[j])
    /\ "expansion" \in Range(call.trace) => pipe.use_query_expansion
    /\ "filtering" \in Range(call.trace) => Truthy(call.filters)
    /\ "reranking" \in Range(call.trace) => pipe.use_reranking

Answered == call.op = "query" /\ call.pc = "done" /\ call.error = "None"

\* C6: the context of every answer of query() is the list that the pipeline's own
\* retrieval produced for this call: retrieved by the pipeline's retriever for the
\* expanded query when expansion is enabled, and reranked when reranking is enabled.
C6_AnswerFromPipelineCandidates ==
    Answered =>
        /\ call.retrieved /\ call.ctx.nodes = call.nodes
        /\ pipe.use_query_expansion => call.ctx.expanded
        /\ pipe.use_reranking => call.ctx.reranked

\* C10: a call in which the LLM failed during query expansion does not end with
\* that failure: it goes on to retrieval with the original question.
C10_ExpansionFailureRecovered ==
    (call.pc = "done" /\ call.expansion_failed) =>
        /\ call.error = "None"
        /\ call.retrieved /\ call.ro_search_query = call.question

\* C11: a call in which the LLM failed during reranking does not end with that
\* failure: retrieve_only() returns the retrieved candidates in their order before
\* reranking, and query() with filters goes on to generate from them.
C11_RerankFailureRecovered ==
    (call.pc = "done" /\ call.rr.raised) =>
        /\ call.nodes = call.rr.nodes
        /\ call.op = "retrieve_only" => call.error = "None"
        /\ call.op = "query" => call.ctx.via = "retrieve_only" /\ call.ctx.nodes = call.rr.nodes

\* C12: when the index raises during retrieval, the call ends there with that
\* failure: no candidate list and no answer is returned, and neither reranking
\* nor generation is entered.
C12_RetrievalFailureAborts ==
    call.index_raised =>
        /\ call.pc = "done" /\ call.error = "RetrievalError"
        /\ call.answer = "None" /\ call.sources = <<>> /\ call.nodes = <<>>
        /\ ~call.rr.called /\ call.ctx = NoContext
        /\ "reranking" \notin Range(call.trace) /\ "generation" \notin Range(call.trace)

\* C12 witness: the index raised in a query() with filters on a pipeline with
\* reranking enabled, after the expansion stage had completed.
C12_Witness ==
    /\ call.index_raised /\ call.op = "query" /\ Truthy(call.filters)
    /\ pipe.use_reranking /\ call.expanded /\ call.error = "RetrievalError"

\* C13: when the retrieval of a query() leaves no context (the filters leave an
\* empty candidate list), no LLM completion is requested over the empty context
\* and the answer returned is the fixed refusal sentence.
C13_RefusalOnEmptyContext ==
    /\ call.pc \in {"q_generate", "g_generate"} => call.ctx.nodes # <<>>
    /\ (Answered /\ call.ctx.nodes = <<>>) => call.answer = "refusal"

\* C14: every prompt sent to the LLM for answer generation contains the fixed
\* domain instruction, the texts of the context chunks in their order, the
\* question, and the instruction to answer with the fixed refusal sentence.
C14_PromptComplete ==
    call.pc \in {"q_generate", "g_generate"} =>
        /\ Lit(DomainInstruction) \in Range(call.prompt)
        /\ ContextStr(call.ctx.nodes) \in Range(call.prompt)
        /\ QueryStr(call.question) \in Range(call.prompt)
        /\ Lit(RefusalInstruction) \in Range(call.prompt)

\* C21: for every combination of the three flags, load_existing() on an existing
\* persisted vector store (the embedding manager and the store load) completes
\* with retriever and generator set, and a later retrieve_only() or query() is
\* not refused as "Pipeline not initialized".
C21_LoadedPipelineAnswers ==
    /\ (call.op = "load_existing" /\ call.pc = "done"
             /\ call.error \notin {"ValueError", "FileNotFoundError"}) =>
           call.error = "None" /\ pipe.retriever.set /\ pipe.generator.set
    /\ (call.op \in {"query", "retrieve_only"} /\ call.pc = "done" /\ pipe.index.set) =>
           call.error # "ValueError"

\* the pipeline as a completed load_existing() leaves it
Initialized(p) ==
    /\ p.embed_manager.set /\ p.vector_store.set /\ p.index.set
    /\ p.retriever.set /\ p.generator.set
    /\ p.reranker.set <=> p.use_reranking
    /\ p.query_expander.set <=> p.use_query_expansion

C23_ThreeLLMCalls ==
    (Answered /\ pipe.use_query_expansion /\ pipe.use_hybrid /\ pipe.use_reranking) =>
        call.llm_calls = 3 /\ call.rr.llm_calls = 1

(***************************************************************************)
(* Specification of a RAGPipeline over a corpus that holds more chunks     *)
(* than retrieval asks for: NManyChunks chunks, all but the last of topic  *)
(* wind.  The operations are those of the specification above; in          *)
(* addition the LLM may answer a reranking batch by choosing every         *)
(* document of the batch.                                                  *)
(***************************************************************************)
NManyChunks == 11

ManyChunks == [c \in 1..NManyChunks |-> [k \in {"topic"} |->
                                            IF c = NManyChunks THEN "solar" ELSE "wind"]]

\* the answer of the LLM that lists every document of the batch
ChoosesAll(batch) == Choices([i \in DOMAIN batch |-> [doc |-> i, rel |-> 1 + (i % MaxRel)]])

InitConfig ==
    /\ corpus = ManyChunks
    /\ retr = Idle
    /\ rcall = Idle
    /\ expander = Idle
    /\ ecall = Idle
    /\ reranker = Idle
    /\ rrcall = Idle
    /\ env \in [retriever_accepts_use_hybrid : BOOLEAN, index_raises : {FALSE}]
    /\ \E r, h, e \in BOOLEAN : pipe = RAGPipeline__init__(r, h, e)
    /\ call = NoCall
    /\ calls = Idle
    /\ ui = Idle
    /\ fusion = Idle
    /\ llms = Idle
    /\ store = Idle
    /\ collector = Idle

rerank_completes_all ==
    /\ call.pc = "ro_rerank"
    /\ call' = RetrieveOnlyReranked(pipe, call,
                   ChoosesAll(BatchAt(pipe.reranker.obj.reranker, call.rr.nodes, call.rr.idx)))
    /\ UNCHANGED <<compVars, appVars, env, pipe>>

NextConfig ==
    \/ load_existing
    \/ \E filters \in PipelineFilters, return_sources \in BOOLEAN :
          query(<<"q">>, filters, return_sources)
    \/ \E filters \in PipelineFilters : retrieve_only(<<"q">>, filters)
    \/ expansion_completes
    \/ rerank_completes
    \/ rerank_completes_all
    \/ generation_completes

SpecConfig == InitConfig /\ [][NextConfig]_vars

\* C28: once load_existing() has completed, and after every sequence of query()
\* and retrieve_only() calls, reranker is set iff use_reranking, query_expander is
\* set iff use_query_expansion, retriever.top_k is 10 with reranking and 5
\* without, reranker.top_n is 5, and retrieve_only() returns at most 5 candidates.
C28_ConfigurationConsistent ==
    /\ pipe.generator.set =>
          /\ pipe.retriever.set
          /\ pipe.reranker.set <=> pipe.use_reranking
          /\ pipe.query_expander.set <=> pipe.use_query_expansion
          /\ pipe.retriever.obj.top_k = IF pipe.use_reranking THEN 10 ELSE 5
          /\ pipe.reranker.set =>
                pipe.reranker.obj.top_n = 5 /\ pipe.reranker.obj.reranker.top_n = 5
    /\ (call.op = "retrieve_only" /\ call.pc = "done" /\ call.error = "None") =>
          Len(call.nodes) <= 5

\* C28 witness: retrieve_only() with reranking retrieved 10 candidates, the LLM
\* chose all of them, and 5 were returned; the pipeline is as loaded.
C28_Witness ==
    /\ call.op = "retrieve_only" /\ call.pc = "done" /\ call.error = "None"
    /\ pipe.use_reranking /\ Len(call.rr.nodes) = 10 /\ Len(call.rr.initial_results) = 10
    /\ Len(call.nodes) = 5

(***************************************************************************)
(* PowerGridTutorUI.  Texts that chat() searches (answers, exception       *)
(* messages) are sequences of words, punctuation marks being words of      *)
(* their own; a marker that the code writes with a blank is a phrase of    *)
(* several words.  The text shown to the user is the sequence of its       *)
(* parts.                                                                  *)
(***************************************************************************)
MaxSources == 4

\* str.lower() on the words that occur capitalised
Lower(word) ==
    CASE word = "This" -> "this"
      [] word = "Outside" -> "outside"
      [] word = "The" -> "the"
      [] word = "Scope" -> "scope"
      [] word = "API" -> "api"
      [] word = "Quota" -> "quota"
      [] word = "Please" -> "please"
      [] word = "Pipeline" -> "pipeline"
      [] word = "Wind" -> "wind"
      [] word = "Solar" -> "solar"
      [] word = "Battery" -> "battery"
      [] word = "Grid" -> "grid"
      [] word = "General" -> "general"
      [] word = "All" -> "all"
      [] word = "Topics" -> "topics"
      [] word = "What" -> "what"
      [] word = "That" -> "that"
      [] word = "I" -> "i"
      [] word = "I'm" -> "i'm"
      [] word = "I'd" -> "i'd"
      [] OTHER -> word

LowerText(text) == [i \in DOMAIN text |-> Lower(text[i])]

\* phrase in text
Contains(text, phrase) ==
    \E i \in 0..(Len(text) - Len(phrase)) : SubSeq(text, i + 1, i + Len(phrase)) = phrase

\* the sentence that instruction 4 of the generator's template asks for
GeneratorRefusal ==
    <<"I'm", "here", "to", "help", "with", "questions", "about", "electrical",
      "engineering", ",", "renewable", "energy", ",", "and", "power", "systems", ".",
      "This", "topic", "is", "outside", "my", "area", "of", "expertise", ",", "but",
      "I'd", "be", "happy", "to", "discuss", "solar", "panels", ",", "wind", "turbines",
      ",", "batteries", ",", "smart", "grids", ",", "or", "any", "related", "electrical",
      "engineering", "concepts", ".", "What", "would", "you", "like", "to", "learn",
      "about", "?">>

\* PROMPTS["rejection_message"]
rejection_message ==
    <<"I", "don't", "have", "information", "on", "this", "topic", ".", "Please", "ask",
      "about", "electrical", "engineering", ",", "renewable", "energy", ",", "power",
      "systems", ",", "or", "smart", "grids", ".">>

\* the markers that chat() looks for in the lowered answer
OutsideExpertise == <<"outside", "my", "area", "of", "expertise">>

OutsideScope == <<"outside", "the", "scope">>

\* the parts of a response
Text(words) == [text |-> words]

SourcesHeader == [header |-> "**Sources:**"]

\* f"{i}. {source_file} (relevance: {relevance_pct})"
SourceLine(i, src) ==
    [line |-> i, source |-> src.source,
     relevance |-> IF src.score > 0 THEN [na |-> FALSE, pct |-> src.score * 100]
                   ELSE [na |-> TRUE, pct |-> 0]]

ProcessingTime == [footer |-> "*Processing time*"]

PleaseInitialize == <<"Please", "initialize", "the", "system", "with", "your", "API", "key", "first", ".">>

Message(role, content) == [role |-> role, content |-> content]

\* whether chat() lists the sources under the answer
ShowsSources(answer, sources) ==
    /\ sources # <<>>
    /\ ~Contains(LowerText(answer), OutsideExpertise)
    /\ ~Contains(LowerText(answer), OutsideScope)

\* response_text for a result of pipeline.query(..., return_sources=True)
ResponseText(result) ==
    LET shown == Take(result.sources, 3)
    IN  <<Text(result.answer)>>
        \o (IF ShowsSources(result.answer, result.sources)
            THEN <<SourcesHeader>> \o [i \in DOMAIN shown |-> SourceLine(i, shown[i])]
            ELSE <<>>)
        \o <<ProcessingTime>>

\* the guidance that chat() shows for an exception, chosen from its message
UserFriendlyKind(error_msg) ==
    IF Contains(error_msg, <<"response.text">>) \/ Contains(error_msg, <<"safety_ratings">>)
    THEN "blocked"
    ELSE IF \/ Contains(LowerText(error_msg), <<"does", "not", "contain">>)
            \/ Contains(LowerText(error_msg), <<"no", "information">>)
    THEN "no_information"
    ELSE IF \/ Contains(LowerText(error_msg), <<"quota">>)
            \/ Contains(LowerText(error_msg), <<"rate", "limit">>)
    THEN "rate_limit"
    ELSE IF \/ Contains(LowerText(error_msg), <<"api", "key">>)
            \/ Contains(LowerText(error_msg), <<"authentication">>)
    THEN "api_key"
    ELSE "other"

PowerGridTutorUI__init__ ==
    [pipeline |-> None, llm_provider |-> "gemini", available_sources |-> <<>>]

\* initialize_pipeline(): RAGPipeline(..., llm_provider=provider, api_key=...) raises
\* TypeError for a RAGPipeline class without these parameters; self.pipeline is
\* assigned before load_existing() is called, and every exception is turned into
\* the returned status
InitializePipeline(self, api_key, provider, selected_features, e) ==
    IF Strip(api_key) = <<>> THEN [ui |-> self, status |-> "WARNING"]
    ELSE LET self1 == [self EXCEPT !.llm_provider = provider]
             p == RAGPipeline__init__("Reranking" \in selected_features,
                                      "Hybrid Search" \in selected_features,
                                      "Query Expansion" \in selected_features)
             out == LoadExisting(p, e.retriever_accepts_use_hybrid, "none")
         IN  IF ~e.pipeline_accepts_llm_provider THEN [ui |-> self1, status |-> "ERROR"]
             ELSE IF out.error # "None"
             THEN [ui |-> [self1 EXCEPT !.pipeline = Some(out.pipe)], status |-> "ERROR"]
             ELSE [ui |-> [self1 EXCEPT !.pipeline = Some(out.pipe),
                                        !.available_sources = <<"a.pdf">>],
                   status |-> "SUCCESS"]

\* the arguments of a chat() call and what it did and returned
NoChat ==
    [called |-> FALSE, self |-> PowerGridTutorUI__init__, message |-> <<>>,
     history_in |-> <<>>, topic_filter |-> <<>>,
     queried |-> FALSE, raised |-> FALSE, filters |-> NoFilters,
     answer |-> <<>>, sources |-> <<>>, response |-> <<>>, guidance |-> "None",
     history |-> <<>>, textbox |-> <<>>]

\* "All Topics"
AllTopics == <<"All", "Topics">>

\* the choices of the topic dropdown: "All Topics", and for each topic a pictograph,
\* a blank and the capitalised name (a pictograph is a word of the text)
TopicChoices ==
    {AllTopics, <<"(sun)", "Solar">>, <<"(wind)", "Wind">>, <<"(battery)", "Battery">>,
     <<"(bolt)", "Grid">>, <<"(book)", "General">>}

\* the values that TextChunker._infer_topic assigns to metadata['topic']
ChunkTopics == {<<"solar">>, <<"wind">>, <<"battery">>, <<"grid">>, <<"general">>}

\* filters = {}; filters['topic'] = topic_filter.lower(); passed as
\* filters if filters else None
ChatFilters(topic_filter) ==
    IF topic_filter # <<>> /\ topic_filter # AllTopics
    THEN [isNone |-> FALSE, map |-> [k \in {"topic"} |-> LowerText(topic_filter)]]
    ELSE NoFilters

\* a chat() whose except branch appends only the reply
ChatDropsMessageOnError(self, message, history, topic_filter, outcome) ==
    [NoChat EXCEPT !.called = TRUE, !.self = self, !.message = message,
                   !.history_in = history, !.topic_filter = topic_filter,
                   !.queried = self.pipeline.set /\ Strip(message) # <<>>,
                   !.filters = ChatFilters(topic_filter),
                   !.raised = outcome.raised, !.textbox = message,
                   !.history = IF self.pipeline.set /\ Strip(message) = <<>> THEN history
                               ELSE IF self.pipeline.set /\ ~outcome.raised
                               THEN history \o <<Message("user", <<Text(message)>>),
                                                 Message("assistant", <<Text(outcome.answer)>>)>>
                               ELSE Append(history, Message("assistant",
                                                            <<Text(PleaseInitialize)>>))]

\* chat(message, history, topic_filter, source_type_filter), given the outcome of
\* self.pipeline.query(message, filters=..., return_sources=True)
Chat(self, message, history, topic_filter, outcome) ==
    LET c0 == [NoChat EXCEPT !.called = TRUE, !.self = self, !.message = message,
                             !.history_in = history, !.topic_filter = topic_filter]
        user == Message("user", <<Text(message)>>)
    IN  IF ~self.pipeline.set
        THEN [c0 EXCEPT !.textbox = message,
                        !.history = Append(history, Message("assistant",
                                                            <<Text(PleaseInitialize)>>))]
        ELSE IF Strip(message) = <<>>
        THEN [c0 EXCEPT !.textbox = message, !.history = history]
        ELSE LET c == [c0 EXCEPT !.queried = TRUE, !.filters = ChatFilters(topic_filter)]
             IN  IF outcome.raised
                 THEN [c EXCEPT !.raised = TRUE, !.guidance = UserFriendlyKind(outcome.msg),
                                !.history = history \o <<user, Message("assistant",
                                                <<[guidance |-> UserFriendlyKind(outcome.msg)]>>)>>]
                 ELSE IF outcome.is_dict
                 THEN [c EXCEPT !.answer = outcome.answer, !.sources = outcome.sources,
                                !.response = ResponseText(outcome),
                                !.history = history \o <<user, Message("assistant",
                                                                       ResponseText(outcome))>>]
                 ELSE [c EXCEPT !.answer = outcome.answer,
                                !.response = <<Text(outcome.answer), ProcessingTime>>,
                                !.history = history \o
                                    <<user, Message("assistant",
                                                    <<Text(outcome.answer), ProcessingTime>>)>>]

(***************************************************************************)
(* Specification of a PowerGridTutorUI.  The object is constructed, then   *)
(* initialize_pipeline() and chat() are called in any order with any       *)
(* arguments; the call of self.pipeline.query inside chat() returns any    *)
(* answer with any list of sources, or raises.  main.py:60-66 calls        *)
(* RAGPipeline(..., llm_provider=..., api_key=...) while pipeline.py:22    *)
(* declares neither parameter: env says which RAGPipeline and Retriever    *)
(* classes the interface is linked with.  chat() writes no attribute of    *)
(* the object, so one chat() call is followed per behaviour.               *)
(***************************************************************************)
\* answers of the LLM: the two refusal sentences, an answer that speaks of the
\* scope, and an answer to the question
OrdinaryAnswer == <<"Wind", "turbines", "convert", "wind", "into", "electricity", ".">>

ScopeAnswer == <<"That", "is", "Outside", "The", "Scope", "of", "my", "knowledge", ".">>

AnswerTexts == {GeneratorRefusal, rejection_message, ScopeAnswer, OrdinaryAnswer}

SourceLists ==
    UNION {[1..n -> [source : {"a.pdf"}, score : {0, 1}]] : n \in 0..MaxSources}

Returns(answer, sources) ==
    [raised |-> FALSE, is_dict |-> TRUE, answer |-> answer, sources |-> sources, msg |-> <<>>]

\* a query() that returns the answer alone, as it does without return_sources
ReturnsStr(answer) ==
    [raised |-> FALSE, is_dict |-> FALSE, answer |-> answer, sources |-> <<>>, msg |-> <<>>]

Raises(msg) ==
    [raised |-> TRUE, is_dict |-> FALSE, answer |-> <<>>, sources |-> <<>>, msg |-> msg]

\* what self.pipeline.query(message, filters, return_sources=True) can do
QueryOutcomes(p) ==
    IF ~p.generator.set
    THEN {Raises(NotInitializedMsg)}
    ELSE {Returns(a, srcs) : a \in AnswerTexts, srcs \in SourceLists}
             \cup {ReturnsStr(OrdinaryAnswer)}
             \cup {Raises(m) : m \in {BlockedMsg, QuotaMsg, ApiKeyMsg, OtherMsg}}

Histories == {<<>>, <<Message("user", <<Text(<<"q">>)>>),
                      Message("assistant", <<Text(OrdinaryAnswer), ProcessingTime>>)>>}

InitChat ==
    /\ corpus = <<>>
    /\ retr = Idle
    /\ rcall = Idle
    /\ expander = Idle
    /\ ecall = Idle
    /\ reranker = Idle
    /\ rrcall = Idle
    /\ env \in [pipeline_accepts_llm_provider : BOOLEAN, retriever_accepts_use_hybrid : BOOLEAN]
    /\ pipe = Idle
    /\ call = Idle
    /\ calls = Idle
    /\ ui = [obj |-> PowerGridTutorUI__init__, status |-> "None", chat |-> NoChat]
    /\ fusion = Idle
    /\ llms = Idle
    /\ store = Idle
    /\ collector = Idle

initialize_pipeline(api_key, provider, selected_features) ==
    /\ LET out == InitializePipeline(ui.obj, api_key, provider, selected_features, env)
       IN  ui' = [ui EXCEPT !.obj = out.ui, !.status = out.status]
    /\ UNCHANGED <<compVars, env, pipe, call, calls, fusion, dataVars>>

chat(message, history, topic_filter) ==
    /\ ~ui.chat.called
    /\ \E outcome \in (IF ui.obj.pipeline.set THEN QueryOutcomes(ui.obj.pipeline.obj)
                       ELSE {Raises(NotInitializedMsg)}) :
          ui' = [ui EXCEPT !.chat = Chat(ui.obj, message, history, topic_filter, outcome)]
    /\ UNCHANGED <<compVars, env, pipe, call, calls, fusion, dataVars>>

NextChat ==
    \/ \E api_key \in {<<>>, <<" ">>, <<"k">>}, provider \in {"gemini", "openai"},
          selected_features \in {{}, {"Hybrid Search"},
                                 {"Query Expansion", "Hybrid Search", "Reranking"}} :
          initialize_pipeline(api_key, provider, selected_features)
    \/ \E message \in {<<" ">>, <<"q">>}, history \in Histories,
          topic_filter \in TopicChoices :
          chat(message, history, topic_filter)

SpecChat == InitChat /\ [][NextChat]_vars

\* C15: whenever the answer that chat() received equals the generator's refusal
\* sentence or the configured rejection_message, the response shown carries no
\* source list, also when sources were retrieved.
C15_NoSourcesOnRefusal ==
    (ui.chat.queried /\ ~ui.chat.raised
        /\ ui.chat.answer \in {GeneratorRefusal, rejection_message}) =>
        SourcesHeader \notin Range(ui.chat.response)

\* C26: when a topic other than "All Topics" is selected in the dropdown, the
\* filters that chat() passes to pipeline.query are {'topic': t} with t one of the
\* topic values that the chunker assigns (solar, wind, battery, grid, general).
C26_TopicFilterIsChunkTopic ==
    (ui.chat.queried /\ ui.chat.topic_filter \in TopicChoices \ {AllTopics}) =>
        /\ ~ui.chat.filters.isNone /\ DOMAIN ui.chat.filters.map = {"topic"}
        /\ ui.chat.filters.map["topic"] \in ChunkTopics

\* C27: a chat() with a pipeline and a non-blank message returns the history it was
\* given followed by the user message and one assistant reply, whether
\* pipeline.query returned a dict, returned a string or raised; with a blank
\* message it returns the history unchanged without calling pipeline.query;
\* without a pipeline it does not call pipeline.query and leaves the message in
\* the input.
C27_ChatAlwaysReplies ==
    ui.chat.called =>
        LET c == ui.chat
            n == Len(c.history_in)
        IN  IF ~c.self.pipeline.set
            THEN ~c.queried /\ c.textbox = c.message
            ELSE IF Strip(c.message) = <<>>
            THEN ~c.queried /\ c.history = c.history_in
            ELSE /\ c.queried
                 /\ Len(c.history) = n + 2 /\ SubSeq(c.history, 1, n) = c.history_in
                 /\ c.history[n + 1] = Message("user", <<Text(c.message)>>)
                 /\ c.history[n + 2].role = "assistant"

\* C27 witness: pipeline.query raised in a chat() with a non-empty history, and the
\* history returned ends with the user message and the reply.
C27_Witness ==
    /\ ui.chat.called /\ ui.chat.raised /\ ui.chat.history_in # <<>>
    /\ Len(ui.chat.history) = Len(ui.chat.history_in) + 2

\* C16: when the LLM completion of the answer generation fails, the failure that
\* leaves query() carries one of the four kinds authentication, rate limit,
\* content block and other, assigned before it reaches the caller and distinct
\* for the distinct causes.
C16_GenerationFailureKinds ==
    (call.op = "query" /\ call.generation_failed) =>
        /\ call.failure.kind \in {"AuthError", "RateLimited", "ContentBlocked", "Other"}
        /\ call.failure.kind = "AuthError" <=> call.failure.msg = ApiKeyMsg
        /\ call.failure.kind = "RateLimited" <=> call.failure.msg = QuotaMsg
        /\ call.failure.kind = "ContentBlocked" <=> call.failure.msg = BlockedMsg

\* C18: every query() call terminates: an LLM service that never responds makes
\* the stage fail by a timeout, and the call is never left waiting for ever.
C18_QueryNeverPending == ~(call.op = "query" /\ call.pc = "pending")

(***************************************************************************)
(* Specification of two threads that call query() and retrieve_only() on   *)
(* one RAGPipeline.  A thread's call proceeds one LLM call at a time, and  *)
(* the steps of the two calls interleave in any order; a call whose LLM    *)
(* call is not answered stays where it is.  The corpus has no chunk, one   *)
(* chunk or only chunks of topic wind, and query() is called with          *)
(* return_sources=True, as chat() calls it.  Each thread makes one call:   *)
(* the methods assign no attribute, so the pipeline is the same for the    *)
(* next.  For each call the pipeline as it was when the call began and the *)
(* LLM outcomes that the call received are kept.                           *)
(***************************************************************************)
Threads == {1, 2}

\* a rerank() that stores min(top_n, len(nodes)) as the top_n of its LLMRerank
ClampsTopN(p, c) ==
    IF c.rr.called /\ c.rr.nodes # <<>> /\ p.reranker.set
    THEN [p EXCEPT !.reranker.obj.reranker.top_n = Min(@, Len(c.rr.nodes))]
    ELSE p

\* the attributes of the pipeline and of its retriever, reranker and expander after
\* a step of call c: query(), retrieve_only(), Retriever.retrieve, Reranker.rerank
\* and QueryExpander.expand assign none of them
SelfAfterStep(p, c) == p

\* the step of call c of pipeline p that the outcome of its pending LLM call allows
StepWith(p, c, llm) ==
    CASE c.pc = "q_expand" -> QueryExpanded(p, c, llm)
      [] c.pc = "ro_expand" -> RetrieveOnlyExpanded(p, c, llm)
      [] c.pc = "ro_rerank" -> RetrieveOnlyReranked(p, c, llm)
      [] c.pc \in {"q_generate", "g_generate"} -> QueryGenerated(c, llm)

\* the outcomes that the pending LLM call of c can have: for an expansion no
\* term or one term, for a batch of the reranker no line, one line or two lines,
\* for the generation an answer; or the failure of the call
LLMOutcomesAt(p, c) ==
    CASE c.pc \in {"q_expand", "ro_expand"} ->
             {Completion(<<>>), Completion(<<"a">>), LLMError}
      [] c.pc = "ro_rerank" ->
             {Choices(<<>>), Choices(<<[doc |-> 1, rel |-> 1]>>),
              Choices(<<[doc |-> 1, rel |-> 1], [doc |-> 2, rel |-> MaxRel]>>),
              RerankLLMError}
      [] c.pc \in {"q_generate", "g_generate"} ->
             {Answer("answer"), AnswerLLMError(QuotaMsg)}

\* the call up to its first LLM call
Begin(p, op, question, filters, return_sources) ==
    IF op = "query" THEN QueryEntry(p, question, filters, return_sources)
    ELSE RetrieveOnlyEntry(p, [NoCall EXCEPT !.op = "retrieve_only",
                                             !.question = question, !.filters = filters])

\* the call run by itself on pipeline p with the LLM outcomes of log
RECURSIVE Replay(_, _, _)
Replay(p, c, log) ==
    IF log = <<>> THEN c ELSE Replay(p, StepWith(p, c, Head(log)), Tail(log))

NoThreadCall == [frame |-> NoCall, self0 |-> None, log |-> <<>>, overlapped |-> FALSE]

RunAlone(tc) ==
    Replay(tc.self0.obj,
           Begin(tc.self0.obj, tc.frame.op, tc.frame.question, tc.frame.filters,
                 tc.frame.return_sources),
           tc.log)

InCall(tc) == tc.frame.op # "none" /\ tc.frame.pc # "done"

InitShared ==
    /\ corpus \in {c \in Topics : \E n \in {0, 1, NChunks} :
                                      \A i \in Chunks : c[i].topic = "wind" <=> i <= n}
    /\ retr = Idle
    /\ rcall = Idle
    /\ expander = Idle
    /\ ecall = Idle
    /\ reranker = Idle
    /\ rrcall = Idle
    /\ env \in [retriever_accepts_use_hybrid : BOOLEAN, index_raises : BOOLEAN]
    /\ \E r, h, e \in BOOLEAN : pipe = RAGPipeline__init__(r, h, e)
    /\ call = Idle
    /\ calls = [t \in Threads |-> NoThreadCall]
    /\ ui = Idle
    /\ fusion = Idle
    /\ llms = Idle
    /\ store = Idle
    /\ collector = Idle

sharedRest == <<compVars, env, call, ui, fusion, dataVars>>

\* load_existing() before the threads start
load_existing_shared ==
    /\ \A t \in Threads : calls[t].frame.op = "none"
    /\ pipe' = LoadExisting(pipe, env.retriever_accepts_use_hybrid, "none").pipe
    /\ UNCHANGED <<sharedRest, calls>>

\* thread t calls query() or retrieve_only()
thread_calls(t, op, question, filters, return_sources) ==
    /\ calls[t].frame.op = "none"
    /\ LET c == Begin(pipe, op, question, filters, return_sources)
       IN  /\ calls' = [calls EXCEPT ![t] =
                           [frame |-> c, self0 |-> Some(pipe), log |-> <<>>,
                            overlapped |-> \E u \in Threads \ {t} : InCall(calls[u])]]
           /\ pipe' = SelfAfterStep(pipe, c)
    /\ UNCHANGED sharedRest

\* the pending LLM call of thread t completes
thread_llm_completes(t) ==
    /\ InCall(calls[t])
    /\ \E outcome \in LLMOutcomesAt(pipe, calls[t].frame) :
          LET c == StepWith(pipe, calls[t].frame, outcome)
          IN  /\ calls' = [calls EXCEPT ![t].frame = c, ![t].log = Append(@, outcome)]
              /\ pipe' = SelfAfterStep(pipe, c)
    /\ UNCHANGED sharedRest

NextShared ==
    \/ load_existing_shared
    \/ \E t \in Threads, op \in {"query", "retrieve_only"}, filters \in PipelineFilters :
          thread_calls(t, op, <<"q">>, filters, TRUE)
    \/ \E t \in Threads : thread_llm_completes(t)

SpecShared == InitShared /\ [][NextShared]_vars

RankedIds(nodes) == [i \in DOMAIN nodes |-> nodes[i].id]

ReturnedNodes(tc) ==
    tc.frame.op = "retrieve_only" /\ tc.frame.pc = "done" /\ tc.frame.error = "None"

\* C17: with reranking disabled, two retrieve_only() calls with the same question
\* and the same filters on the unchanged corpus return the same ranked list of
\* candidate ids, whatever the expansion and hybrid flags are.
C17_RetrievalDeterministic ==
    (/\ ~pipe.use_reranking
     /\ \A t \in Threads : ReturnedNodes(calls[t])
     /\ calls[1].frame.question = calls[2].frame.question
     /\ calls[1].frame.filters = calls[2].frame.filters)
        => RankedIds(calls[1].frame.nodes) = RankedIds(calls[2].frame.nodes)

\* C19: under every interleaving of the steps of two calls on one pipeline, each
\* call is where it would be, and returns what it would return, had it run by
\* itself on the pipeline as it was when the call began, with the same LLM
\* outcomes.
C19_CallsAsIfAlone ==
    \A t \in Threads : calls[t].frame.op # "none" => calls[t].frame = RunAlone(calls[t])

\* C19 witness: two calls that overlapped have both returned, one a reranked list
\* of two nodes and one an answer generated from a reranked list.
C19_Witness ==
    /\ calls[2].overlapped
    /\ calls[1].frame.op = "query" /\ calls[1].frame.pc = "done"
    /\ calls[1].frame.error = "None" /\ calls[1].frame.rr.called
    /\ Len(calls[1].log) >= 3
    /\ ReturnedNodes(calls[2]) /\ Len(calls[2].frame.nodes) = 2
    /\ calls[2].frame.filters # calls[1].frame.filters

(***************************************************************************)
(* Rank fusion of the hybrid retriever.  The Retriever of retrieval.py has *)
(* no lexical ranking and no fusion; its callers (pipeline.py:84,123,      *)
(* scripts/test_hybrid_search.py) construct it with use_hybrid.  The       *)
(* fusion is modelled as the specification of the repository describes it: *)
(* every chunk of the lexical or of the semantic ranking is scored with    *)
(* the sum of 1/(kappa + rank) over the rankings that contain it, and the  *)
(* chunks are ordered by that score, best first, ties by semantic rank.    *)
(* Scores are kept exact as numerators over the common denominator         *)
(* (kappa + 1) * ... * (kappa + MaxRankLen).                               *)
(***************************************************************************)
MaxKappa == 2

MaxRankLen == 2

\* the rankings: lists of distinct chunks
Rankings ==
    {r \in UNION {[1..n -> Chunks] : n \in 0..MaxRankLen} :
        \A i, j \in DOMAIN r : i # j => r[i] # r[j]}

\* the rank of chunk c in a ranking, from 1; 0 when the ranking does not contain it
RankIn(ranking, c) ==
    IF \E i \in DOMAIN ranking : ranking[i] = c
    THEN CHOOSE i \in DOMAIN ranking : ranking[i] = c
    ELSE 0

\* (kappa + 1) * ... * (kappa + n)
RECURSIVE Denominator(_, _)
Denominator(kappa, n) == IF n = 0 THEN 1 ELSE (kappa + n) * Denominator(kappa, n - 1)

\* 1/(kappa + rank) over the common denominator; 0 for a ranking without the chunk
Reciprocal(kappa, rank) ==
    IF rank = 0 THEN 0 ELSE Denominator(kappa, MaxRankLen) \div (kappa + rank)

\* the larger of the reciprocal ranks instead of their sum
MaxOfReciprocals(kappa, lexical, semantic, c) ==
    LET l == Reciprocal(kappa, RankIn(lexical, c))
        m == Reciprocal(kappa, RankIn(semantic, c))
    IN  IF l > m THEN l ELSE m

\* fused_score = sum of 1/(kappa + rank_in_list) over the lists that contain the chunk
fused_score(kappa, lexical, semantic, c) ==
    Reciprocal(kappa, RankIn(lexical, c)) + Reciprocal(kappa, RankIn(semantic, c))

\* the candidates ordered by fused score, best first; ties by semantic rank, a
\* chunk without one last, then by chunk id
RECURSIVE FusedOrder(_, _, _, _)
FusedOrder(kappa, lexical, semantic, cands) ==
    IF cands = {} THEN <<>>
    ELSE LET score(c) == fused_score(kappa, lexical, semantic, c)
             semkey(c) == IF RankIn(semantic, c) = 0 THEN MaxRankLen + 1
                          ELSE RankIn(semantic, c)
             before(a, b) ==
                 \/ score(a) > score(b)
                 \/ score(a) = score(b) /\ semkey(a) < semkey(b)
                 \/ score(a) = score(b) /\ semkey(a) = semkey(b) /\ a < b
             best == CHOOSE a \in cands : \A b \in cands \ {a} : before(a, b)
         IN  <<[id |-> best, fused_score |-> score(best)]>>
                 \o FusedOrder(kappa, lexical, semantic, cands \ {best})

Fuse(kappa, lexical, semantic) ==
    FusedOrder(kappa, lexical, semantic, Range(lexical) \cup Range(semantic))

InitFusion ==
    /\ corpus = <<>>
    /\ retr = Idle
    /\ rcall = Idle
    /\ expander = Idle
    /\ ecall = Idle
    /\ reranker = Idle
    /\ rrcall = Idle
    /\ env = Idle
    /\ pipe = Idle
    /\ call = Idle
    /\ calls = Idle
    /\ ui = Idle
    /\ llms = Idle
    /\ store = Idle
    /\ collector = Idle
    /\ \E kappa \in 1..MaxKappa, lexical \in Rankings, semantic \in Rankings :
          fusion = [kappa |-> kappa, lexical |-> lexical, semantic |-> semantic,
                    done |-> FALSE, fused |-> <<>>]

fuse ==
    /\ ~fusion.done
    /\ fusion' = [fusion EXCEPT !.done = TRUE,
                                !.fused = Fuse(fusion.kappa, fusion.lexical, fusion.semantic)]
    /\ UNCHANGED <<compVars, env, pipe, call, calls, ui, dataVars>>

NextFusion == fuse

SpecFusion == InitFusion /\ [][NextFusion]_vars

\* the fused score of a chunk that is first in one ranking and in no other
FirstInOneOnly(kappa, c) ==
    {Fuse(kappa, <<c>>, <<>>)[1].fused_score, Fuse(kappa, <<>>, <<c>>)[1].fused_score}

MaxLLMs == 3

Providers == {"gemini", "ollama", "openai"}

\* the llm_provider argument of RAGPipeline(...): a provider, or none given
ProviderArgs == Providers \cup {"None"}

LLMCallKinds == {"expansion", "reranking", "filtered_generation", "generation"}

\* EmbeddingManager(llm_provider=...): the n-th LLM client of the process;
\* llm_provider defaults to "gemini"
EmbeddingManager__init__(llm_provider, n) ==
    [id |-> n, provider |-> IF llm_provider = "None" THEN "gemini" ELSE llm_provider]

NoPipeline ==
    [constructed |-> FALSE, llm_provider |-> "None", loaded |-> FALSE, llm |-> None,
     reranker_llm |-> None, query_engine_llm |-> None]

\* load_existing() of pipeline p when n LLM clients exist: Settings.llm is
\* assigned by EmbeddingManager() before Retriever(...) can raise
LoadWithLLM(p, n, accepts_use_hybrid) ==
    LET llm == EmbeddingManager__init__(p.llm_provider, n + 1)
        p1 == [p EXCEPT !.llm = Some(llm)]
    IN  [settings_llm |-> Some(llm),
         pipe |-> IF accepts_use_hybrid
                  THEN [p1 EXCEPT !.loaded = TRUE, !.reranker_llm = Some(llm),
                                  !.query_engine_llm = Some(llm)]
                  ELSE p1]

\* the LLM that a call of the given kind on pipeline p goes to
LLMUsedBy(p, settings_llm, kind) ==
    IF kind \in {"expansion", "filtered_generation"} THEN settings_llm
    ELSE IF kind = "reranking" THEN p.reranker_llm
    ELSE p.query_engine_llm

InitLLMs ==
    /\ corpus = <<>>
    /\ retr = Idle
    /\ rcall = Idle
    /\ expander = Idle
    /\ ecall = Idle
    /\ reranker = Idle
    /\ rrcall = Idle
    /\ env \in [pipeline_accepts_llm_provider : BOOLEAN, retriever_accepts_use_hybrid : BOOLEAN]
    /\ pipe = Idle
    /\ call = Idle
    /\ calls = Idle
    /\ ui = Idle
    /\ fusion = Idle
    /\ llms = [settings_llm |-> None, made |-> 0, pipelines |-> [i \in 1..2 |-> NoPipeline],
               use |-> [pipeline |-> 0, kind |-> "none", llm |-> None], error |-> "None"]
    /\ store = Idle
    /\ collector = Idle

llmsRest == <<compVars, env, pipe, call, calls, ui, fusion, store, collector>>

\* RAGPipeline(llm_provider=provider), or RAGPipeline() for "None"
construct_pipeline(i, provider) ==
    /\ ~llms.pipelines[i].constructed
    /\ llms' = IF provider # "None" /\ ~env.pipeline_accepts_llm_provider
               THEN [llms EXCEPT !.error = "TypeError"]
               ELSE [llms EXCEPT !.error = "None",
                                 !.pipelines[i] = [NoPipeline EXCEPT !.constructed = TRUE,
                                                                     !.llm_provider = provider]]
    /\ UNCHANGED llmsRest

load_pipeline(i) ==
    /\ llms.pipelines[i].constructed
    /\ llms.made < MaxLLMs
    /\ LET out == LoadWithLLM(llms.pipelines[i], llms.made, env.retriever_accepts_use_hybrid)
       IN  llms' = [llms EXCEPT !.settings_llm = out.settings_llm, !.made = @ + 1,
                                !.pipelines[i] = out.pipe,
                                !.error = IF out.pipe.loaded THEN "None" ELSE "TypeError"]
    /\ UNCHANGED llmsRest

\* an LLM call of a query() on pipeline i
llm_call(i, kind) ==
    /\ llms.pipelines[i].loaded
    /\ llms' = [llms EXCEPT !.error = "None",
                            !.use = [pipeline |-> i, kind |-> kind,
                                     llm |-> LLMUsedBy(llms.pipelines[i], llms.settings_llm, kind)]]
    /\ UNCHANGED llmsRest

NextLLMs ==
    \/ \E i \in 1..2, provider \in ProviderArgs : construct_pipeline(i, provider)
    \/ \E i \in 1..2 : load_pipeline(i)
    \/ \E i \in 1..2, kind \in LLMCallKinds : llm_call(i, kind)

SpecLLMs == InitLLMs /\ [][NextLLMs]_vars

MaxBuilds == 3

FAISSVectorStore__init__ ==
    [dimension |-> None, faiss_index |-> None, vector_store |-> None, index |-> None]

\* what a build or a load can meet: nothing, a failure of the embedding model
\* before anything is built, or a failure while the VectorStoreIndex is made
StoreFaults == {"none", "embedding", "index"}

\* build_index(nodes), the n-th build or load of the store
BuildIndex(self, n, fault) ==
    LET s1 == [self EXCEPT !.dimension = IF @.set THEN @ ELSE Some("detected")]
        s2 == [s1 EXCEPT !.faiss_index = Some(n), !.vector_store = Some(n)]
    IN  IF fault = "embedding" /\ ~self.dimension.set THEN [obj |-> self, error |-> "Exception"]
        ELSE IF fault # "none" THEN [obj |-> s2, error |-> "Exception"]
        ELSE [obj |-> [s2 EXCEPT !.index = Some(n)], error |-> "None"]

\* save(): index.faiss is written, then the metadata is persisted
Save(self, dir) ==
    IF ~self.index.set THEN [dir |-> dir, error |-> "ValueError"]
    ELSE [dir |-> [index_faiss |-> TRUE, metadata |-> TRUE], error |-> "None"]

\* a load() that wraps a FAISS index before it looks for the file
LoadWrapsFirst(self, dir, n, fault) ==
    IF ~dir.index_faiss
    THEN [obj |-> [self EXCEPT !.vector_store = Some(n)], error |-> "FileNotFoundError"]
    ELSE [obj |-> [self EXCEPT !.vector_store = Some(n), !.index = Some(n),
                               !.faiss_index = Some(n)], error |-> "None"]

\* load(), the n-th build or load of the store
Load(self, dir, n, fault) ==
    LET s1 == [self EXCEPT !.vector_store = Some(n)]
    IN  IF ~dir.index_faiss THEN [obj |-> self, error |-> "FileNotFoundError"]
        ELSE IF ~dir.metadata \/ fault # "none" THEN [obj |-> s1, error |-> "Exception"]
        ELSE [obj |-> [s1 EXCEPT !.index = Some(n), !.faiss_index = Some(n)],
              error |-> "None"]

\* get_index()
GetIndex(self) ==
    IF ~self.index.set THEN [value |-> None, error |-> "ValueError"]
    ELSE [value |-> self.index, error |-> "None"]

NoStoreCall == [op |-> "none", error |-> "None", before |-> FAISSVectorStore__init__,
                had_index_faiss |-> FALSE, value |-> None]

InitStore ==
    /\ corpus = <<>>
    /\ retr = Idle
    /\ rcall = Idle
    /\ expander = Idle
    /\ ecall = Idle
    /\ reranker = Idle
    /\ rrcall = Idle
    /\ env = Idle
    /\ pipe = Idle
    /\ call = Idle
    /\ calls = Idle
    /\ ui = Idle
    /\ fusion = Idle
    /\ llms = Idle
    /\ \E dir \in [index_faiss : BOOLEAN, metadata : BOOLEAN] :
          store = [obj |-> FAISSVectorStore__init__, dir |-> dir, made |-> 0,
                   succeeded |-> FALSE, last |-> NoStoreCall]
    /\ collector = Idle

storeRest == <<compVars, env, pipe, call, calls, ui, fusion, llms, collector>>

\* the frame of a call on the store as it is
StoreCall(op) ==
    [NoStoreCall EXCEPT !.op = op, !.before = store.obj,
                        !.had_index_faiss = store.dir.index_faiss]

build_index(fault) ==
    /\ store.made < MaxBuilds
    /\ LET out == BuildIndex(store.obj, store.made + 1, fault)
       IN  store' = [store EXCEPT !.obj = out.obj, !.made = @ + 1,
                                  !.succeeded = @ \/ out.error = "None",
                                  !.last = [StoreCall("build_index") EXCEPT !.error = out.error]]
    /\ UNCHANGED storeRest

save ==
    /\ LET out == Save(store.obj, store.dir)
       IN  store' = [store EXCEPT !.dir = out.dir,
                                  !.last = [StoreCall("save") EXCEPT !.error = out.error]]
    /\ UNCHANGED storeRest

load(fault) ==
    /\ store.made < MaxBuilds
    /\ LET out == Load(store.obj, store.dir, store.made + 1, fault)
       IN  store' = [store EXCEPT !.obj = out.obj, !.made = @ + 1,
                                  !.succeeded = @ \/ out.error = "None",
                                  !.last = [StoreCall("load") EXCEPT !.error = out.error]]
    /\ UNCHANGED storeRest

get_index ==
    /\ LET out == GetIndex(store.obj)
       IN  store' = [store EXCEPT !.last = [StoreCall("get_index") EXCEPT
                                               !.error = out.error, !.value = out.value]]
    /\ UNCHANGED storeRest

NextStore ==
    \/ \E fault \in StoreFaults : build_index(fault)
    \/ save
    \/ \E fault \in StoreFaults : load(fault)
    \/ get_index

SpecStore == InitStore /\ [][NextStore]_vars

\* C29: after every sequence of operations, save() and get_index() raise
\* ValueError exactly when no build_index() or load() has succeeded before, which
\* is when index is None, and succeed otherwise; load() on a directory without
\* index.faiss raises FileNotFoundError and leaves index, faiss_index and
\* vector_store as they were.
C29_StoreGuards ==
    /\ store.succeeded <=> store.obj.index.set
    /\ store.last.op \in {"save", "get_index"} =>
          /\ store.last.error = IF store.succeeded THEN "None" ELSE "ValueError"
          /\ store.obj = store.last.before
    /\ (store.last.op = "load" /\ ~store.last.had_index_faiss) =>
          /\ store.last.error = "FileNotFoundError"
          /\ store.obj.index = store.last.before.index
          /\ store.obj.faiss_index = store.last.before.faiss_index
          /\ store.obj.vector_store = store.last.before.vector_store

\* C29 witness: load() raised FileNotFoundError on a store that a build_index()
\* had filled, and the objects of the build are still there.
C29_Witness ==
    /\ store.last.op = "load" /\ store.last.error = "FileNotFoundError"
    /\ store.succeeded /\ store.obj.index.set /\ store.obj.vector_store.set

(***************************************************************************)
(* ArxivCollector (src/scripts/data_collection/collect_arxiv_papers.py).   *)
(* An entry id of a search result is a text with "/" between its parts,    *)
(* as "abs/1v1"; the paper id is the part after the last "/".  The         *)
(* metadata is the list of the recorded papers.  The metadata before a     *)
(* call is any list without two entries of one id, loaded from the         *)
(* metadata file or left by the calls before; one call is followed per     *)
(* behaviour.                                                              *)
(***************************************************************************)
MaxResults == 3

\* entry ids of search results: two papers, and an old-style id whose last part
\* is that of the first
EntryIds == {<<"a", "/", "1">>, <<"a", "/", "2">>, <<"a", "/", "h", "/", "1">>}

\* paper_id = result.entry_id.split('/')[-1]
PaperId(entry_id) == LET parts == Split(entry_id, "/") IN parts[Len(parts)]

\* paper_metadata
PaperMetadata(entry_id) ==
    [id |-> PaperId(entry_id), pdf_url |-> entry_id,
     local_path |-> PaperId(entry_id) \o <<".pdf">>]

\* any(p['id'] == paper_id for p in self.metadata['papers'])
AlreadyDownloaded(papers, paper_id) == \E i \in DOMAIN papers : papers[i].id = paper_id

\* one turn of the loop over the results: the result at position i is skipped,
\* its download raises, or it is downloaded and recorded
RECURSIVE ProcessResults(_, _, _, _)
ProcessResults(st, results, i, failing) ==
    IF i > Len(results) THEN st
    ELSE LET paper_id == PaperId(results[i])
         IN  IF AlreadyDownloaded(st.papers, paper_id)
             THEN ProcessResults([st EXCEPT !.log = Append(@, "skipped")],
                                 results, i + 1, failing)
             ELSE IF i \in failing
             THEN ProcessResults([st EXCEPT !.log = Append(@, "failed"),
                                            !.attempts = Append(@, results[i])],
                                 results, i + 1, failing)
             ELSE ProcessResults([st EXCEPT !.log = Append(@, "downloaded"),
                                            !.attempts = Append(@, results[i]),
                                            !.papers = Append(@, PaperMetadata(results[i])),
                                            !.downloaded_papers =
                                                Append(@, PaperMetadata(results[i]))],
                                 results, i + 1, failing)

\* a search_and_download() that compares the results with the metadata as it was
\* when the call began
ComparesWithOldMetadata(papers, results, failing) ==
    LET New(i) == ~AlreadyDownloaded(papers, PaperId(results[i])) /\ i \notin failing
        added == [i \in DOMAIN results |-> PaperMetadata(results[i])]
        kept == SelectSeq([i \in DOMAIN results |-> i], New)
        news == [k \in DOMAIN kept |-> added[kept[k]]]
    IN  [papers |-> papers \o news, downloaded_papers |-> news,
         log |-> [i \in DOMAIN results |->
                     IF AlreadyDownloaded(papers, PaperId(results[i])) THEN "skipped"
                     ELSE IF i \in failing THEN "failed" ELSE "downloaded"],
         attempts |-> <<>>]

\* search_and_download(): the results of the search are processed in order, the
\* downloads at the positions of failing raise
SearchAndDownload(papers, results, failing) ==
    ProcessResults([papers |-> papers, downloaded_papers |-> <<>>, log |-> <<>>,
                    attempts |-> <<>>], results, 1, failing)

ResultLists == UNION {[1..n -> EntryIds] : n \in 0..MaxResults}

NoSearch == [called |-> FALSE, results |-> <<>>, failing |-> {}, before |-> <<>>,
             log |-> <<>>, attempts |-> <<>>, downloaded_papers |-> <<>>]

\* the lists of recorded papers without two entries of one id
MetadataLists ==
    {m \in UNION {[1..n -> {PaperMetadata(e) : e \in EntryIds}] : n \in 0..2} :
        \A i, j \in DOMAIN m : m[i].id = m[j].id => i = j}

InitCollector ==
    /\ corpus = <<>>
    /\ retr = Idle
    /\ rcall = Idle
    /\ expander = Idle
    /\ ecall = Idle
    /\ reranker = Idle
    /\ rrcall = Idle
    /\ env = Idle
    /\ pipe = Idle
    /\ call = Idle
    /\ calls = Idle
    /\ ui = Idle
    /\ fusion = Idle
    /\ llms = Idle
    /\ store = Idle
    /\ \E papers \in MetadataLists : collector = [papers |-> papers, last |-> NoSearch]

search_and_download(results, failing) ==
    /\ ~collector.last.called
    /\ LET out == SearchAndDownload(collector.papers, results, failing)
       IN  collector' = [papers |-> out.papers,
                         last |-> [called |-> TRUE, results |-> results, failing |-> failing,
                                   before |-> collector.papers, log |-> out.log,
                                   attempts |-> out.attempts,
                                   downloaded_papers |-> out.downloaded_papers]]
    /\ UNCHANGED <<compVars, env, pipe, call, calls, ui, fusion, llms, store>>

NextCollector ==
    \E results \in ResultLists :
        \E failing \in SUBSET (DOMAIN results) : search_and_download(results, failing)

SpecCollector == InitCollector /\ [][NextCollector]_vars

\* the ids recorded when the result at position i of the last call was processed
RecordedBefore(i) ==
    {collector.last.before[k].id : k \in DOMAIN collector.last.before}
        \cup {PaperId(collector.last.results[j]) :
                 j \in {h \in 1..(i - 1) : collector.last.log[h] = "downloaded"}}

\* C30: after a search_and_download() on metadata without two entries of one id,
\* and so after every sequence of calls, no two entries of metadata['papers']
\* have the same id; every result of a call is processed: one
\* whose id is recorded already is skipped without a download, one whose
\* download raises is not recorded, and the others are recorded in their order.
C30_NoDuplicateIds ==
    /\ \A i, j \in DOMAIN collector.papers :
          collector.papers[i].id = collector.papers[j].id => i = j
    /\ collector.last.called =>
          LET l == collector.last
              Downloaded(i) == l.log[i] = "downloaded"
              got == SelectSeq([i \in DOMAIN l.results |-> i], Downloaded)
              Tried(i) == l.log[i] # "skipped"
              tried == SelectSeq([i \in DOMAIN l.results |-> i], Tried)
          IN  /\ Len(l.log) = Len(l.results)
              /\ \A i \in DOMAIN l.results :
                    /\ l.log[i] = "skipped" <=> PaperId(l.results[i]) \in RecordedBefore(i)
                    /\ l.log[i] = "failed" <=>
                          (PaperId(l.results[i]) \notin RecordedBefore(i) /\ i \in l.failing)
              /\ l.attempts = [k \in DOMAIN tried |-> l.results[tried[k]]]
              /\ collector.papers =
                    l.before \o [k \in DOMAIN got |-> PaperMetadata(l.results[got[k]])]

\* C30 witness: in one call a download raised, a later result was downloaded, and
\* a result with the id of that one was skipped.
C30_Witness ==
    /\ collector.last.called
    /\ \E i, j, k \in DOMAIN collector.last.log :
          /\ i < j /\ j < k
          /\ collector.last.log[i] = "failed"
          /\ collector.last.log[j] = "downloaded"
          /\ collector.last.log[k] = "skipped"
          /\ PaperId(collector.last.results[k]) = PaperId(collector.last.results[j])
====
